---------------------------- MODULE Spec2Model ----------------------------
(***************************************************************************)
(* TalentScout hiring assistant: the chat wizard of streamlit_app.py, the  *)
(* validators, the question bank with its seeded sampler, the sentiment    *)
(* bucketing, the LLM responder and the JSON store.                        *)
(*                                                                         *)
(* Text is a sequence of one-character strings, so that strip(), lower(),  *)
(* split() and join() are computed and not assumed.  Question texts and    *)
(* the assistant's fixed replies are never taken apart by the code and are *)
(* kept as whole strings.                                                  *)
(***************************************************************************)
EXTENDS Integers, Sequences, FiniteSets, TLC

VARIABLES
    messages,           \* st.session_state.messages
    profile,            \* st.session_state.profile (raw, string-keyed)
    consent,            \* st.session_state.consent
    questions,          \* st.session_state.questions
    ended,              \* st.session_state.ended
    question_count,     \* st.session_state.question_count
    saved,              \* the payloads written by LocalJSONStore.save_conversation
    TECH_QUESTIONS,     \* questions.py module-level dict (mutable lists)
    GENERIC_QUESTIONS,  \* questions.py module-level list (mutable)
    last,               \* the most recent interaction and the route main() took
    noise,              \* number of off-script interactions so far
    toggled,            \* whether the sidebar consent toggle was ever used
    call,               \* the most recent direct call of generate_question_set
    pure                \* a direct call of a validator: its argument and result

vars == <<messages, profile, consent, questions, ended, question_count, saved,
          TECH_QUESTIONS, GENERIC_QUESTIONS, last, noise, toggled, call, pure>>

session_vars_but_pure == <<messages, profile, consent, questions, ended,
                           question_count, saved, last, noise, toggled>>

session_vars == <<session_vars_but_pure, pure>>

NoPure == [fn |-> "none"]

-----------------------------------------------------------------------------
(* Text primitives: str.strip, str.lower, str.replace, str.split, str.join *)

Whitespace == {" ", "\t", "\n"}

UpperToLower ==
    [c \in {"A","B","C","D","E","F","G","H","I","J","K","L","M",
            "N","O","P","Q","R","S","T","U","V","W","X","Y","Z"} |->
        CASE c = "A" -> "a" [] c = "B" -> "b" [] c = "C" -> "c" [] c = "D" -> "d"
          [] c = "E" -> "e" [] c = "F" -> "f" [] c = "G" -> "g" [] c = "H" -> "h"
          [] c = "I" -> "i" [] c = "J" -> "j" [] c = "K" -> "k" [] c = "L" -> "l"
          [] c = "M" -> "m" [] c = "N" -> "n" [] c = "O" -> "o" [] c = "P" -> "p"
          [] c = "Q" -> "q" [] c = "R" -> "r" [] c = "S" -> "s" [] c = "T" -> "t"
          [] c = "U" -> "u" [] c = "V" -> "v" [] c = "W" -> "w" [] c = "X" -> "x"
          [] c = "Y" -> "y" [] c = "Z" -> "z"]

LowerChar(c) == IF c \in DOMAIN UpperToLower THEN UpperToLower[c] ELSE c

Lower(s) == [i \in 1..Len(s) |-> LowerChar(s[i])]

RECURSIVE LStrip(_)
LStrip(s) ==
    IF s # <<>> /\ Head(s) \in Whitespace THEN LStrip(Tail(s)) ELSE s

RECURSIVE RStrip(_)
RStrip(s) ==
    IF s # <<>> /\ s[Len(s)] \in Whitespace
    THEN RStrip(SubSeq(s, 1, Len(s) - 1))
    ELSE s

Strip(s) == RStrip(LStrip(s))

Replace(s, old, new) == [i \in 1..Len(s) |-> IF s[i] = old THEN new ELSE s[i]]

\* str.split(sep) for a one-character separator: always at least one piece.
RECURSIVE SplitAcc(_, _, _)
SplitAcc(s, sep, cur) ==
    IF s = <<>> THEN <<cur>>
    ELSE IF Head(s) = sep THEN <<cur>> \o SplitAcc(Tail(s), sep, <<>>)
    ELSE SplitAcc(Tail(s), sep, Append(cur, Head(s)))

Split(s, sep) == SplitAcc(s, sep, <<>>)

\* sep.join(parts) for a list of texts.
RECURSIVE Join(_, _)
Join(parts, sep) ==
    IF parts = <<>> THEN <<>>
    ELSE IF Len(parts) = 1 THEN parts[1]
    ELSE parts[1] \o sep \o Join(Tail(parts), sep)

Range(s) == {s[i] : i \in 1..Len(s)}

-----------------------------------------------------------------------------
(* Question bank (questions.py) *)

T_python == <<"p", "y", "t", "h", "o", "n">>
T_django == <<"d", "j", "a", "n", "g", "o">>
T_flask == <<"f", "l", "a", "s", "k">>
T_javascript == <<"j", "a", "v", "a", "s", "c", "r", "i", "p", "t">>
T_react == <<"r", "e", "a", "c", "t">>
T_node == <<"n", "o", "d", "e">>
T_postgresql == <<"p", "o", "s", "t", "g", "r", "e", "s", "q", "l">>
T_mongodb == <<"m", "o", "n", "g", "o", "d", "b">>
T_docker == <<"d", "o", "c", "k", "e", "r">>
T_kubernetes == <<"k", "u", "b", "e", "r", "n", "e", "t", "e", "s">>
T_tensorflow == <<"t", "e", "n", "s", "o", "r", "f", "l", "o", "w">>
T_pytorch == <<"p", "y", "t", "o", "r", "c", "h">>
T_scikit_learn == <<"s", "c", "i", "k", "i", "t", "-", "l", "e", "a", "r", "n">>

T_general == <<"g", "e", "n", "e", "r", "a", "l">>

\* TECH_QUESTIONS as the module is imported: the lists in source order.
TECH_QUESTIONS_0 ==
    (T_python :> <<
        "Explain list vs tuple and when to use each.",
        "What are generators? Show a simple example.",
        "How does GIL impact multithreading in Python?",
        "Describe context managers and the 'with' statement."
    >>)
    @@ (T_django :> <<
        "Explain Django ORM querysets and lazy evaluation.",
        "How do middleware work in Django?",
        "What are class-based views vs function-based views?",
        "How do you manage migrations and schema changes?"
    >>)
    @@ (T_flask :> <<
        "How do blueprints help structure Flask apps?",
        "How would you handle configuration per environment?",
        "Explain request context vs application context."
    >>)
    @@ (T_javascript :> <<
        "Explain event loop and microtasks in JS.",
        "Difference between var, let, and const.",
        "What is closure and a practical use-case?"
    >>)
    @@ (T_react :> <<
        "When do you use useMemo and useCallback?",
        "Explain reconciliation and keys in lists.",
        "How would you manage global state?"
    >>)
    @@ (T_node :> <<
        "Explain Node's event-driven architecture.",
        "How do streams work in Node.js?",
        "What is cluster mode and when to use it?"
    >>)
    @@ (T_postgresql :> <<
        "Explain indexes and when they might hurt performance.",
        "How do transactions and isolation levels work?",
        "What is a CTE and when to use it?"
    >>)
    @@ (T_mongodb :> <<
        "How do you design schemas in a document DB?",
        "Explain aggregation pipeline basics.",
        "When would you prefer embedded vs referenced docs?"
    >>)
    @@ (T_docker :> <<
        "Difference between image and container.",
        "How do multi-stage builds reduce image size?",
        "How do you persist data across container restarts?"
    >>)
    @@ (T_kubernetes :> <<
        "Explain deployments vs statefulsets.",
        "How does a service route traffic to pods?",
        "What are liveness and readiness probes?"
    >>)
    @@ (T_tensorflow :> <<
        "Explain eager execution vs graph mode.",
        "How do you prevent overfitting in deep nets?",
        "What is transfer learning and when to use it?"
    >>)
    @@ (T_pytorch :> <<
        "Explain autograd and computational graphs.",
        "How do you manage device placement (CPU/GPU)?",
        "Describe DataLoader and Dataset abstractions."
    >>)
    @@ (T_scikit_learn :> <<
        "How do you handle class imbalance?",
        "Difference between bagging and boosting.",
        "What is cross-validation and why is it important?"
    >>)

\* GENERIC_QUESTIONS as the module is imported.
GENERIC_QUESTIONS_0 == <<
    "Describe a challenging bug you solved and the impact.",
    "How do you ensure code quality and readability?",
    "Explain a system you designed end-to-end."
    >>

-----------------------------------------------------------------------------
(* random.Random(42): the Mersenne Twister seeded with 42 yields a fixed    *)
(* stream of 32-bit words; getrandbits(k) for k <= 32 consumes one word and *)
(* returns its k high bits.  Shuffling lists of at most 4 items asks for at *)
(* most 3 bits, so the stream is kept as the 3 high bits of each word.      *)

MT42_HIGH3 ==
    <<5, 0, 0, 5, 2, 1, 1, 1, 5, 0, 5, 5, 7, 4, 0, 4,
      3, 0, 0, 0, 1, 1, 4, 4, 0, 4, 1, 5, 5, 5, 4, 3,
      1, 3, 4, 2, 6, 6, 0, 6, 6, 1, 5, 3, 2, 2, 1, 1,
      7, 6, 2, 0, 0, 3, 0, 2, 6, 2, 4, 2, 6, 0, 5, 3>>

\* int.bit_length for 1..7
BitLength(n) == IF n >= 4 THEN 3 ELSE IF n >= 2 THEN 2 ELSE 1

\* getrandbits(k) at stream position pos (1-based), k in 1..3
GetRandBits(k, pos) ==
    CASE k = 3 -> MT42_HIGH3[pos]
      [] k = 2 -> MT42_HIGH3[pos] \div 2
      [] k = 1 -> MT42_HIGH3[pos] \div 4

\* Random._randbelow_with_getrandbits(n): rejection sampling.
\* Returns the value drawn and the next stream position.
RECURSIVE RandBelow(_, _)
RandBelow(n, pos) ==
    LET r == GetRandBits(BitLength(n), pos)
    IN  IF r >= n THEN RandBelow(n, pos + 1)
        ELSE [value |-> r, pos |-> pos + 1]

Swap(x, i, j) == [x EXCEPT ![i] = x[j], ![j] = x[i]]

\* Random.shuffle(x): for i in reversed(range(1, len(x))): j = randbelow(i + 1);
\* x[i], x[j] = x[j], x[i]   (0-based i, j).  k is the 1-based index of x[i].
RECURSIVE ShuffleFrom(_, _, _)
ShuffleFrom(x, k, pos) ==
    IF k < 2 THEN [list |-> x, pos |-> pos]
    ELSE LET d == RandBelow(k, pos)
         IN  ShuffleFrom(Swap(x, k, d.value + 1), k - 1, d.pos)

Shuffle(x, pos) == ShuffleFrom(x, Len(x), pos)

-----------------------------------------------------------------------------
(* generate_question_set (questions.py) *)

Max(a, b) == IF a >= b THEN a ELSE b

Questions(picked) == {picked[i].question : i \in 1..Len(picked)}

\* The inner loop over bank[:per_tech] (and the loop over GENERIC_QUESTIONS):
\* stop at `limit` items, skip a question already used, else append it.
\* TakeFrom without the `if q in used: continue` test.
RECURSIVE TakeFrom_NoUsedCheck(_, _, _, _)
TakeFrom_NoUsedCheck(qs, tag, picked, limit) ==
    IF qs = <<>> \/ Len(picked) >= limit THEN picked
    ELSE TakeFrom_NoUsedCheck(Tail(qs), tag,
                              Append(picked, [tech |-> tag, question |-> Head(qs)]),
                              limit)

RECURSIVE TakeFrom(_, _, _, _)
TakeFrom(qs, tag, picked, limit) ==
    IF qs = <<>> \/ Len(picked) >= limit THEN picked
    ELSE IF Head(qs) \in Questions(picked)
         THEN TakeFrom(Tail(qs), tag, picked, limit)
         ELSE TakeFrom(Tail(qs), tag,
                       Append(picked, [tech |-> tag, question |-> Head(qs)]),
                       limit)

Prefix(s, n) == SubSeq(s, 1, IF n < Len(s) THEN n ELSE Len(s))

\* _questions_for_tech: the bank list itself (not a copy) for a known key,
\* a fresh empty list otherwise.
KnownTech(tech, banks) == Lower(tech) \in DOMAIN banks

_questions_for_tech(tech, banks) ==
    IF KnownTech(tech, banks) THEN banks[Lower(tech)] ELSE <<>>

\* The loop `for tech in techs`.  st = [picked, banks, pos]; the shuffle is
\* in place, so it rewrites the module-level list of a known technology.
RECURSIVE TechLoop(_, _, _, _)
TechLoop(techs, per_tech, total, st) ==
    IF techs = <<>> THEN st
    ELSE LET tech   == Head(techs)
             sh     == Shuffle(_questions_for_tech(tech, st.banks), st.pos)
             banks2 == IF KnownTech(tech, st.banks)
                       THEN [st.banks EXCEPT ![Lower(tech)] = sh.list]
                       ELSE st.banks
             picked2 == TakeFrom(Prefix(sh.list, per_tech), tech, st.picked, total)
             st2    == [picked |-> picked2, banks |-> banks2, pos |-> sh.pos]
         IN  IF Len(picked2) >= total THEN st2
             ELSE TechLoop(Tail(techs), per_tech, total, st2)

\* Returns the list and the module state the call leaves behind.
generate_question_set(techs, total_questions, banks, generic) ==
    LET per_tech == Max(1, total_questions \div Max(1, Len(techs)))
        st == TechLoop(techs, per_tech, total_questions,
                       [picked |-> <<>>, banks |-> banks, pos |-> 1])
    IN  IF Len(st.picked) < total_questions
        THEN LET sh == Shuffle(generic, st.pos)
             IN  [picked  |-> TakeFrom(sh.list, T_general, st.picked, total_questions),
                  banks   |-> st.banks,
                  generic |-> sh.list]
        ELSE [picked |-> st.picked, banks |-> st.banks, generic |-> generic]

-----------------------------------------------------------------------------
(* Direct calls of generate_question_set within one process (SpecQ) *)

MaxTechs == 2          \* longest technology list passed to a direct call
MinQuestions == 3      \* slider min_value
MaxQuestions == 8      \* slider max_value
DefaultQuestions == 5  \* init_state: question_count

T_rust == <<"r", "u", "s", "t">>

TechNames == {T_python, T_flask, T_rust}

RECURSIVE ListsUpTo(_, _)
ListsUpTo(S, n) ==
    IF n = 0 THEN {<<>>}
    ELSE LET shorter == ListsUpTo(S, n - 1)
         IN  shorter \cup {Append(l, x) : l \in shorter, x \in S}

TechLists == ListsUpTo(TechNames, MaxTechs)

Totals == 1..MaxQuestions

NoCall == [made |-> FALSE, techs |-> <<>>, total |-> 0, result |-> <<>>,
           repeat |-> FALSE, before |-> <<>>]

\* A caller invokes generate_question_set(techs, total).
Call(techs, total) ==
    /\ ~call.made
    /\ LET g == generate_question_set(techs, total, TECH_QUESTIONS, GENERIC_QUESTIONS)
       IN  /\ call' = [made |-> TRUE, techs |-> techs, total |-> total,
                       result |-> g.picked, repeat |-> FALSE, before |-> <<>>]
           /\ TECH_QUESTIONS' = g.banks
           /\ GENERIC_QUESTIONS' = g.generic
    /\ UNCHANGED session_vars

\* The caller repeats the call it has just made, with the same arguments.
CallAgain ==
    /\ call.made /\ ~call.repeat
    /\ LET g == generate_question_set(call.techs, call.total,
                                      TECH_QUESTIONS, GENERIC_QUESTIONS)
       IN  /\ call' = [call EXCEPT !.result = g.picked, !.repeat = TRUE,
                                   !.before = call.result]
           /\ TECH_QUESTIONS' = g.banks
           /\ GENERIC_QUESTIONS' = g.generic
    /\ UNCHANGED session_vars

\* The caller drops the returned list; the module-level lists stay as left.
Forget ==
    /\ call.made
    /\ call' = NoCall
    /\ UNCHANGED <<TECH_QUESTIONS, GENERIC_QUESTIONS>>
    /\ UNCHANGED session_vars

-----------------------------------------------------------------------------
(* Validators (validators.py, and the library calls of streamlit_app.py) *)

Digits == {"0", "1", "2", "3", "4", "5", "6", "7", "8", "9"}

Letters == {"a","b","c","d","e","f","g","h","i","j","k","l","m",
            "n","o","p","q","r","s","t","u","v","w","x","y","z"}

DigitValue(c) ==
    CASE c = "0" -> 0 [] c = "1" -> 1 [] c = "2" -> 2 [] c = "3" -> 3
      [] c = "4" -> 4 [] c = "5" -> 5 [] c = "6" -> 6 [] c = "7" -> 7
      [] c = "8" -> 8 [] c = "9" -> 9

AllIn(s, S) == \A i \in 1..Len(s) : s[i] \in S

CountOf(s, c) == Cardinality({i \in 1..Len(s) : s[i] = c})

\* The integer a digit string denotes, saturated at 1000: the code only
\* compares years with 0 and 60, and every larger value compares alike.
RECURSIVE DigitsToInt(_)
DigitsToInt(s) ==
    IF s = <<>> THEN 0
    ELSE LET v == 10 * DigitsToInt(SubSeq(s, 1, Len(s) - 1)) + DigitValue(s[Len(s)])
         IN  IF v > 1000 THEN 1000 ELSE v

END_WORDS_DEFAULT ==
    { <<"q","u","i","t">>, <<"e","x","i","t">>, <<"b","y","e">>,
      <<"g","o","o","d","b","y","e">>, <<"s","t","o","p">>, <<"e","n","d">> }

END_KEYWORDS == END_WORDS_DEFAULT

\* is_end_keyword without .lower()
is_end_keyword_CaseSensitive(text, end_words) ==
    Strip(text) \in (IF end_words # {} THEN end_words ELSE END_WORDS_DEFAULT)

is_end_keyword(text, end_words) ==
    Lower(Strip(text)) \in (IF end_words # {} THEN end_words ELSE END_WORDS_DEFAULT)

aliases ==
       (<<"j","s">> :> T_javascript)
    @@ (<<"p","y">> :> T_python)
    @@ (<<"t","s">> :> <<"t","y","p","e","s","c","r","i","p","t">>)
    @@ (<<"p","g","s","q","l">> :> T_postgresql)
    @@ (<<"p","o","s","t","g","r","e">> :> T_postgresql)
    @@ (<<"m","o","n","g","o">> :> T_mongodb)
    @@ (<<"t","f">> :> T_tensorflow)
    @@ (<<"s","k","l","e","a","r","n">> :> T_scikit_learn)

\* The list comprehension: strip and lowercase each piece, drop blank pieces.
RECURSIVE Tokens(_)
Tokens(pieces) ==
    IF pieces = <<>> THEN <<>>
    ELSE IF Strip(Head(pieces)) # <<>>
         THEN <<Lower(Strip(Head(pieces)))>> \o Tokens(Tail(pieces))
         ELSE Tokens(Tail(pieces))

\* The loop without its `seen` test: every token is kept.
Dedup_KeepAll(xs, result) == result \o xs

\* The loop with `seen`: keep the first occurrence of each token.
RECURSIVE Dedup(_, _)
Dedup(xs, result) ==
    IF xs = <<>> THEN result
    ELSE IF Head(xs) \in Range(result) THEN Dedup(Tail(xs), result)
    ELSE Dedup(Tail(xs), Append(result, Head(xs)))

parse_tech_stack(raw) ==
    LET items == Tokens(Split(Replace(Replace(raw, "/", ","), "|", ","), ","))
        normalized == [i \in 1..Len(items) |->
                          IF items[i] \in DOMAIN aliases THEN aliases[items[i]]
                          ELSE items[i]]
    IN  Dedup(normalized, <<>>)

\* float(text), on the forms the modelled inputs can take: an optional sign,
\* then nan / inf / infinity in any case, or digits with at most one point
\* and at least one digit.  (Exponents and digit-group underscores are not
\* in the modelled alphabet.)  A number is sign * (whole + 0.frac); -1.0 is
\* the from_raw sentinel.
NotAFloat == [ok |-> FALSE, kind |-> "error", sign |-> 1, whole |-> 0, frac |-> <<>>]
MinusOne  == [ok |-> TRUE, kind |-> "num", sign |-> 0 - 1, whole |-> 1, frac |-> <<>>]

ParseUnsigned(s, sign) ==
    LET low == Lower(s)
        dot == CountOf(s, ".")
    IN  IF low = <<"n","a","n">>
        THEN [ok |-> TRUE, kind |-> "nan", sign |-> sign, whole |-> 0, frac |-> <<>>]
        ELSE IF low \in {<<"i","n","f">>, <<"i","n","f","i","n","i","t","y">>}
        THEN [ok |-> TRUE, kind |-> "inf", sign |-> sign, whole |-> 0, frac |-> <<>>]
        ELSE IF AllIn(s, Digits \cup {"."}) /\ dot <= 1 /\ Len(s) - dot >= 1
        THEN LET p == IF dot = 1
                      THEN CHOOSE i \in 1..Len(s) : s[i] = "."
                      ELSE Len(s) + 1
             IN  [ok |-> TRUE, kind |-> "num", sign |-> sign,
                  whole |-> DigitsToInt(SubSeq(s, 1, p - 1)),
                  frac |-> SubSeq(s, p + 1, Len(s))]
        ELSE NotAFloat

ParseFloat(text) ==
    LET s == Strip(text)
    IN  IF s = <<>> THEN NotAFloat
        ELSE IF Head(s) = "-" THEN ParseUnsigned(Tail(s), 0 - 1)
        ELSE IF Head(s) = "+" THEN ParseUnsigned(Tail(s), 1)
        ELSE ParseUnsigned(s, 1)

FracNonZero(v) == \E i \in 1..Len(v.frac) : v.frac[i] # "0"

\* v < n and v > n for a float v and an integer n >= 0: every comparison
\* with nan is false.
FloatBelow(v, n) ==
    CASE v.kind = "num" ->
            IF v.sign < 0 THEN n > 0 \/ v.whole > 0 \/ FracNonZero(v)
            ELSE v.whole < n
      [] v.kind = "inf" -> v.sign < 0
      [] OTHER -> FALSE

FloatAbove(v, n) ==
    CASE v.kind = "num" ->
            v.sign > 0 /\ (v.whole > n \/ (v.whole = n /\ FracNonZero(v)))
      [] v.kind = "inf" -> v.sign > 0
      [] OTHER -> FALSE

MinYears == 0
MaxYears == 60

\* The range test left out.
YearsOutOfRange_Never(v) == FALSE

YearsOutOfRange(v) == FloatBelow(v, MinYears) \/ FloatAbove(v, MaxYears)

\* email_validator.validate_email(text, check_deliverability=False), as the
\* syntax it enforces on plain ASCII addresses: one "@", a dot-atom local
\* part, and a domain of at least two non-empty letter/digit/hyphen labels.
DotAtom(s, allowed) ==
    /\ s # <<>>
    /\ AllIn(s, allowed \cup {"."})
    /\ Head(s) # "." /\ s[Len(s)] # "."
    /\ \A i \in 1..(Len(s) - 1) : ~(s[i] = "." /\ s[i + 1] = ".")

validate_email(text) ==
    /\ CountOf(text, "@") = 1
    /\ LET at == CHOOSE i \in 1..Len(text) : text[i] = "@"
           local  == SubSeq(text, 1, at - 1)
           domain == SubSeq(text, at + 1, Len(text))
       IN  /\ DotAtom(local, Letters \cup DOMAIN UpperToLower \cup Digits
                                \cup {"_", "-", "+"})
           /\ DotAtom(Lower(domain), Letters \cup Digits \cup {"-"})
           /\ CountOf(domain, ".") >= 1
           /\ Head(domain) # "-" /\ domain[Len(domain)] # "-"

\* A collection step that takes any text for an address.
_valid_email_Any(text) == TRUE

_valid_email(text) == validate_email(Strip(text))

\* phonenumbers.parse(text, None) followed by is_valid_number, as the E.164
\* shape: with no default region the number must start with "+", followed by
\* a country code that does not start with 0 and 8 to 15 digits in all.
is_valid_number(text) ==
    /\ Len(text) >= 2
    /\ Head(text) = "+"
    /\ AllIn(Tail(text), Digits)
    /\ text[2] # "0"
    /\ Len(text) - 1 >= 8
    /\ Len(text) - 1 <= 15

_valid_phone(text) == is_valid_number(Strip(text))

-----------------------------------------------------------------------------
(* CandidateProfile (validators.py) *)

FieldOrder == <<"full_name", "email", "phone", "years_experience",
                "desired_positions", "location", "tech_stack">>

FieldNames == Range(FieldOrder)

NoProfile == [ok |-> FALSE]

\* The field validators of CandidateProfile, run by the constructor on a
\* dictionary whose years_experience is already a float.
ValidateModel(data) ==
    /\ FieldNames \subseteq DOMAIN data
    /\ validate_email(data["email"])
    /\ is_valid_number(data["phone"])
    /\ \A f \in {"full_name", "desired_positions", "location", "tech_stack"} :
          data[f] # <<>> /\ Strip(data[f]) # <<>>
    /\ ~YearsOutOfRange(data["years_experience"])

\* CandidateProfile.from_raw: years_experience is read with the default "0",
\* parsed, replaced by -1.0 when it does not parse, and the constructor
\* validates the result.  NoProfile stands for the raised ValidationError.
from_raw(raw) ==
    LET years_raw == Strip(IF "years_experience" \in DOMAIN raw
                           THEN raw["years_experience"] ELSE <<"0">>)
        parsed == ParseFloat(years_raw)
        years  == IF parsed.ok THEN parsed ELSE MinusOne
        data   == ("years_experience" :> years) @@ raw
    IN  IF ValidateModel(data) THEN [ok |-> TRUE, data |-> data] ELSE NoProfile

\* is_complete_minimal: the constructor run again on model_dump().
is_complete_minimal(p) == ValidateModel(p.data)

-----------------------------------------------------------------------------
(* Sentiment (sentiment.py): the VADER compound score of a text is          *)
(* x / sqrt(x*x + 15) for the summed valence x of its words.  Valences are  *)
(* kept in tenths for the words the modelled inputs use.                    *)

Lexicon ==
       (<<"y","e","s">> :> 17)
    @@ (<<"n","o">> :> 0 - 12)
    @@ (<<"g","r","e","a","t">> :> 31)

RECURSIVE SumValence(_)
SumValence(words) ==
    IF words = <<>> THEN 0
    ELSE (IF Lower(Head(words)) \in DOMAIN Lexicon
          THEN Lexicon[Lower(Head(words))] ELSE 0) + SumValence(Tail(words))

\* compound >= 0.2 iff x > 0 and 24 x^2 >= 15, with x = tenths / 10.
analyze_sentiment_label(text) ==
    LET tenths == SumValence(Tokens(Split(Replace(text, "\n", " "), " ")))
    IN  IF tenths > 0 /\ 24 * tenths * tenths >= 1500 THEN "positive"
        ELSE IF tenths < 0 /\ 24 * tenths * tenths >= 1500 THEN "negative"
        ELSE "neutral"

-----------------------------------------------------------------------------
(* LLM responder (client.py) *)

RECURSIVE Contains(_, _)
Contains(s, sub) ==
    IF Len(s) < Len(sub) THEN FALSE
    ELSE IF SubSeq(s, 1, Len(sub)) = sub THEN TRUE
    ELSE Contains(Tail(s), sub)

\* messages[-10:]
LastTen(msgs) == SubSeq(msgs, Max(1, Len(msgs) - 9), Len(msgs))

RECURSIVE LastUser(_)
LastUser(msgs) ==
    IF msgs = <<>> THEN <<>>
    ELSE IF msgs[Len(msgs)].role = "user" THEN msgs[Len(msgs)].content
    ELSE LastUser(SubSeq(msgs, 1, Len(msgs) - 1))

RuleBasedLLM_chat(msgs) ==
    LET last_user == Lower(LastUser(msgs))
    IN  IF Contains(last_user, <<"s","a","l","a","r","y">>)
           \/ Contains(last_user, <<"c","t","c">>)
        THEN <<"Compensation details depend on the role and experience. A recruiter will follow up.">>
        ELSE IF Contains(last_user, <<"i","n","t","e","r","v","i","e","w">>)
        THEN <<"We will schedule interviews based on your fit. Please ensure your details are complete.">>
        ELSE <<"I can assist with hiring and tech-screening questions. Could you clarify your query?">>

\* What the process and the network can do on one open-chat turn: no
\* OPENAI_API_KEY; with the key set, OpenAILLM() raising in its constructor
\* (the import of openai or OpenAI() itself), a completion that succeeds, a
\* request that raises.
LLMOutcomes == {"no_key", "client_error", "api_ok", "api_fail"}

\* get_llm_client() returns a responder unless OpenAILLM.__init__ raises:
\* its two statements stand outside any try.
ClientBuilt(outcome) == outcome # "client_error"

\* get_llm_client().chat(...): the network reply is opaque text.
llm_chat(outcome, msgs) ==
    IF outcome = "api_ok" THEN <<"(completion returned by the OpenAI API)">>
    ELSE RuleBasedLLM_chat(msgs)

-----------------------------------------------------------------------------
(* The chat wizard (streamlit_app.py) *)

Msg(role, content) == [role |-> role, content |-> content]

GREETING == <<"Hello! I'm TalentScout, your hiring assistant. I will collect your basic details, understand your tech stack, and ask a few tailored technical questions. You can type 'exit' anytime to end the conversation.">>
ASK_NAME == <<"First, what's your full name?">>
NAME_HINT == <<"Please provide your full name (at least 3 characters).">>
ASK_EMAIL == <<"Great, please share your email address.">>
EMAIL_HINT == <<"That doesn't look like a valid email. Please re-enter your email.">>
ASK_PHONE == <<"Thanks! What's your phone number (with country code if possible)?">>
PHONE_HINT == <<"That phone number seems invalid. Please include country code if possible.">>
ASK_YEARS == <<"How many years of experience do you have? (e.g., 2, 3.5)">>
YEARS_RANGE_HINT == <<"Please enter years of experience between 0 and 60.">>
YEARS_NUMBER_HINT == <<"Please enter a number for years of experience (e.g., 2, 3.5).">>
ASK_POSITIONS == <<"What's your desired position(s)?">>
POSITIONS_HINT == <<"Please specify at least one desired position.">>
ASK_LOCATION == <<"What's your current location (City, Country)?">>
LOCATION_HINT == <<"Please provide your current location (City, Country).">>
ASK_TECH == <<"Please list your tech stack (languages, frameworks, databases, tools). For example: Python, Django, PostgreSQL, Docker">>
TECH_HINT == <<"I couldn't parse that. Please list comma-separated technologies (e.g., Python, React).">>
ASK_CONSENT == <<"Would you like to consent to storing your data locally for screening? (yes/no)">>
THANKS_GENERATING == <<"Thanks! Generating tailored technical questions based on your tech stack...">>
CLOSING == <<"Thank you for your time. Our team will review your responses and reach out with next steps.">>
NO_REPLY == <<>>

Hints == {NAME_HINT, EMAIL_HINT, PHONE_HINT, YEARS_RANGE_HINT, YEARS_NUMBER_HINT,
          POSITIONS_HINT, LOCATION_HINT, TECH_HINT}

IntStr(n) ==
    CASE n = 0 -> "0" [] n = 1 -> "1" [] n = 2 -> "2" [] n = 3 -> "3" [] n = 4 -> "4"
      [] n = 5 -> "5" [] n = 6 -> "6" [] n = 7 -> "7" [] n = 8 -> "8" [] n = 9 -> "9"

\* len(text) < 3 with the spec's rule in its place: only an empty text fails.
NameTooShort_EmptyOnly(text) == Len(text) = 0

\* `if len(text) < 3` of the full_name step.
NameTooShort(text) == Len(text) < 3

\* `if len(text) < 2` of the desired_positions and location steps.
TextTooShort(text) == Len(text) < 2

\* st.session_state.profile = {field: text} in place of profile[field] = text.
Store_Alone(prof, field, text) == (field :> text)

\* st.session_state.profile[field] = text
Store(prof, field, text) == (field :> text) @@ prof

\* collect_candidate_info: the reply, and the profile and consent it leaves.
collect_candidate_info(user_input, prof, cons) ==
    LET text == Strip(user_input)
        Out(reply, p, c) == [reply |-> reply, profile |-> p, consent |-> c]
        years_val == ParseFloat(text)
        techs == parse_tech_stack(text)
    IN  IF "full_name" \notin DOMAIN prof THEN
            IF NameTooShort(text) THEN Out(NAME_HINT, prof, cons)
            ELSE Out(ASK_EMAIL, Store(prof, "full_name", text), cons)
        ELSE IF "email" \notin DOMAIN prof THEN
            IF ~_valid_email(text) THEN Out(EMAIL_HINT, prof, cons)
            ELSE Out(ASK_PHONE, Store(prof, "email", text), cons)
        ELSE IF "phone" \notin DOMAIN prof THEN
            IF ~_valid_phone(text) THEN Out(PHONE_HINT, prof, cons)
            ELSE Out(ASK_YEARS, Store(prof, "phone", text), cons)
        ELSE IF "years_experience" \notin DOMAIN prof THEN
            IF ~years_val.ok THEN Out(YEARS_NUMBER_HINT, prof, cons)
            ELSE IF YearsOutOfRange(years_val) THEN Out(YEARS_RANGE_HINT, prof, cons)
            ELSE Out(ASK_POSITIONS, Store(prof, "years_experience", text), cons)
        ELSE IF "desired_positions" \notin DOMAIN prof THEN
            IF TextTooShort(text) THEN Out(POSITIONS_HINT, prof, cons)
            ELSE Out(ASK_LOCATION, Store(prof, "desired_positions", text), cons)
        ELSE IF "location" \notin DOMAIN prof THEN
            IF TextTooShort(text) THEN Out(LOCATION_HINT, prof, cons)
            ELSE Out(ASK_TECH, Store(prof, "location", text), cons)
        ELSE IF "tech_stack" \notin DOMAIN prof THEN
            IF techs = <<>> THEN Out(TECH_HINT, prof, cons)
            ELSE Out(ASK_CONSENT,
                     Store(prof, "tech_stack", Join(techs, <<",", " ">>)), cons)
        ELSE IF ~cons THEN
            Out(THANKS_GENERATING, prof,
                Lower(text) \in {<<"y","e","s">>, <<"y">>})
        ELSE Out(NO_REPLY, prof, cons)

maybe_finalize_profile(prof) ==
    IF DOMAIN prof = {} THEN NoProfile ELSE from_raw(prof)

\* LocalJSONStore.save_conversation: the payload written (its uuid and
\* timestamp are left out: they name the file and are never read back).
save_conversation(prof, msgs, qs) ==
    [profile |-> prof, messages |-> msgs, questions |-> qs]

\* end_conversation_block writing whenever a profile exists, consent or not.
end_conversation_block_NoConsentGate(p, msgs) ==
    LET closed == Append(msgs, Msg("assistant", CLOSING))
    IN  /\ messages' = closed
        /\ ended' = TRUE
        /\ saved' = IF p.ok
                    THEN Append(saved, save_conversation(p.data, closed, questions))
                    ELSE saved

\* end_conversation_block(profile) after add_message("user", user_input):
\* the closing message, the ended flag and the gated write.
end_conversation_block(p, msgs) ==
    LET closed == Append(msgs, Msg("assistant", CLOSING))
    IN  /\ messages' = closed
        /\ ended' = TRUE
        /\ saved' = IF consent /\ p.ok
                    THEN Append(saved, save_conversation(p.data, closed, questions))
                    ELSE saved

Unanswered(qs) == {i \in 1..Len(qs) : "answer" \notin DOMAIN qs[i]}

\* ask_technical_questions, then the intro and one message per question.
QuestionMessages(qs) ==
    [i \in 1..Len(qs) |-> Msg("assistant", <<"Q", IntStr(i), ". ", qs[i].question>>)]

GenerateQuestions(p, msgs) ==
    LET techs == parse_tech_stack(p.data["tech_stack"])
        g == generate_question_set(techs, question_count,
                                   TECH_QUESTIONS, GENERIC_QUESTIONS)
        intro == <<"Generating questions for your tech stack: ">>
                 \o Join(techs, <<",", " ">>) \o <<". Please answer briefly.">>
    IN  /\ questions' = g.picked
        /\ TECH_QUESTIONS' = g.banks
        /\ GENERIC_QUESTIONS' = g.generic
        /\ messages' = Append(msgs, Msg("assistant", intro)) \o QuestionMessages(g.picked)

\* The answer given to the last item without an answer, not the first.
RecordAnswer_LastUnanswered(user_input, msgs) ==
    LET i == CHOOSE k \in Unanswered(questions) :
                 \A j \in Unanswered(questions) : k >= j
        qs2 == [questions EXCEPT ![i] =
                  ("answer" :> user_input)
                  @@ ("sentiment" :> analyze_sentiment_label(user_input))
                  @@ questions[i]]
        remaining == Cardinality(Unanswered(qs2))
        note == IF remaining # 0
                THEN <<"Noted. ", IntStr(remaining), " question(s) remaining.">>
                ELSE <<"Noted. Type 'exit' to finish or ask a follow-up.">>
    IN  /\ questions' = qs2
        /\ messages' = Append(msgs, Msg("assistant", note))

\* The first item without an answer takes the raw input and its label.
RecordAnswer(user_input, msgs) ==
    LET i == CHOOSE k \in Unanswered(questions) :
                 \A j \in Unanswered(questions) : k <= j
        qs2 == [questions EXCEPT ![i] =
                  ("answer" :> user_input)
                  @@ ("sentiment" :> analyze_sentiment_label(user_input))
                  @@ questions[i]]
        remaining == Cardinality(Unanswered(qs2))
        note == IF remaining # 0
                THEN <<"Noted. ", IntStr(remaining), " question(s) remaining.">>
                ELSE <<"Noted. Type 'exit' to finish or ask a follow-up.">>
    IN  /\ questions' = qs2
        /\ messages' = Append(msgs, Msg("assistant", note))

-----------------------------------------------------------------------------
(* The user: what is typed into the chat box, and the sidebar *)

MaxNoise == 1          \* interactions that leave the expected script

I_name   == <<"A", "n", "n", " ", "L", "e", "e">>
I_email  == <<"a", "@", "b", ".", "c", "o">>
I_phone  == <<"+", "1", "4", "1", "5", "5", "5", "5", "2", "6", "7", "1">>
I_years  == <<"3", ".", "5">>
I_role   == <<"D", "e", "v">>
I_stack  == <<"P", "y", "/", "J", "S", "|", " ", "p", "y">>
I_yes    == <<"y", "e", "s">>
I_Y      == <<" ", "Y">>
I_no     == <<"n", "o">>
I_exit   == <<"e", "x", "i", "t">>
I_End    == <<" ", "E", "n", "d">>
I_a      == <<"a">>
I_70     == <<"7", "0">>
I_blank  == <<" ", " ">>
I_empty  == <<>>
I_nan    == <<"n", "a", "n">>

Inputs == {I_name, I_email, I_phone, I_years, I_role, I_stack, I_yes, I_Y, I_no,
           I_exit, I_End, I_a, I_70, I_blank, I_empty, I_nan}

\* The first field of FieldOrder that the raw profile lacks.
NextField(prof) ==
    LET missing == {i \in 1..Len(FieldOrder) : FieldOrder[i] \notin DOMAIN prof}
    IN  IF missing = {} THEN "none"
        ELSE FieldOrder[CHOOSE i \in missing : \A j \in missing : i <= j]

\* Where the conversation stands, as the user sees it.
Stage ==
    IF ended THEN "ended"
    ELSE IF NextField(profile) # "none" THEN NextField(profile)
    ELSE IF questions = <<>> THEN "consent"
    ELSE IF Unanswered(questions) # {} THEN "answer"
    ELSE "chat"

\* What a cooperative user types at each stage; "exit" is always at hand.
Script ==
    {I_exit} \cup
    CASE Stage = "full_name" -> {I_name}
      [] Stage = "email" -> {I_email}
      [] Stage = "phone" -> {I_phone}
      [] Stage = "years_experience" -> {I_years}
      [] Stage = "desired_positions" -> {I_role}
      [] Stage = "location" -> {I_role}
      [] Stage = "tech_stack" -> {I_stack}
      [] Stage = "consent" -> {I_yes, I_no}
      [] Stage = "answer" -> {I_yes}
      [] OTHER -> {}

OffScript == noise < MaxNoise /\ noise' = noise + 1

Budget(user_input) ==
    IF user_input \in Script THEN noise' = noise ELSE OffScript

Turn(text, route, llm) == [kind |-> "turn", text |-> text, route |-> route, llm |-> llm]

\* main() without the `if st.session_state.ended: return` test.
TurnAccepted_Always == TRUE

\* main(), line 209: a finished conversation takes no further input.
TurnAccepted == ~ended

\* `if profile and not st.session_state.questions` with the second test
\* left out.
NeedQuestions_EveryTurn(p) == p.ok

\* main(), line 235: questions are generated for a Profile that has none.
NeedQuestions(p) == p.ok /\ questions = <<>>

\* main() from line 223 on: a turn that is not an end keyword.  A turn whose
\* get_llm_client() raises ends there, after the user message was added.
Route(user_input) ==
    LET msgs == Append(messages, Msg("user", user_input))
        p0 == maybe_finalize_profile(profile)
        collecting == ~p0.ok \/ ~is_complete_minimal(p0)
        c == IF collecting THEN collect_candidate_info(user_input, profile, consent)
             ELSE [reply |-> NO_REPLY, profile |-> profile, consent |-> consent]
        p1 == IF collecting THEN maybe_finalize_profile(c.profile) ELSE p0
    IN  /\ profile' = c.profile
        /\ consent' = c.consent
        /\ UNCHANGED <<ended, saved>>
        /\ IF collecting /\ c.reply # NO_REPLY THEN
               /\ messages' = Append(msgs, Msg("assistant", c.reply))
               /\ UNCHANGED <<questions, TECH_QUESTIONS, GENERIC_QUESTIONS>>
               /\ last' = Turn(user_input, "collect", "none")
           ELSE IF NeedQuestions(p1) THEN
               /\ GenerateQuestions(p1, msgs)
               /\ last' = Turn(user_input, "generate", "none")
           ELSE IF Unanswered(questions) # {} THEN
               /\ RecordAnswer(user_input, msgs)
               /\ UNCHANGED <<TECH_QUESTIONS, GENERIC_QUESTIONS>>
               /\ last' = Turn(user_input, "answer", "none")
           ELSE
               \E outcome \in LLMOutcomes :
                   /\ messages' = IF ClientBuilt(outcome)
                                  THEN Append(msgs, Msg("assistant",
                                                  llm_chat(outcome, LastTen(msgs))))
                                  ELSE msgs
                   /\ UNCHANGED <<questions, TECH_QUESTIONS, GENERIC_QUESTIONS>>
                   /\ last' = Turn(user_input, "chat", outcome)

\* One run of main() with user_input submitted in the chat box.
UserTurn(user_input) ==
    /\ Budget(user_input)
    /\ UNCHANGED <<question_count, toggled, call, pure>>
    /\ IF ~TurnAccepted THEN
           /\ last' = Turn(user_input, "ignored", "none")
           /\ UNCHANGED <<messages, profile, consent, questions, ended, saved,
                          TECH_QUESTIONS, GENERIC_QUESTIONS>>
       ELSE IF user_input = <<>> THEN
           /\ last' = Turn(user_input, "empty", "none")
           /\ UNCHANGED <<messages, profile, consent, questions, ended, saved,
                          TECH_QUESTIONS, GENERIC_QUESTIONS>>
       ELSE IF is_end_keyword(user_input, END_KEYWORDS) THEN
           /\ end_conversation_block(maybe_finalize_profile(profile),
                                     Append(messages, Msg("user", user_input)))
           /\ last' = Turn(user_input, "end", "none")
           /\ UNCHANGED <<profile, consent, questions,
                          TECH_QUESTIONS, GENERIC_QUESTIONS>>
       ELSE Route(user_input)

\* st.toggle("Consent to local storage", key="consent")
ToggleConsent ==
    /\ OffScript
    /\ consent' = ~consent
    /\ toggled' = TRUE
    /\ last' = [kind |-> "toggle", text |-> <<>>, route |-> "none", llm |-> "none"]
    /\ UNCHANGED <<messages, profile, questions, ended, question_count, saved,
                   TECH_QUESTIONS, GENERIC_QUESTIONS, call, pure>>

\* st.slider("Number of technical questions", min_value=3, max_value=8, ...)
SetQuestionCount(n) ==
    /\ OffScript
    /\ n # question_count
    /\ question_count' = n
    /\ last' = [kind |-> "slider", text |-> <<>>, route |-> "none", llm |-> "none"]
    /\ UNCHANGED <<messages, profile, consent, questions, ended, saved, toggled,
                   TECH_QUESTIONS, GENERIC_QUESTIONS, call, pure>>

\* init_state and greeting_block on the first run, in a fresh process.
FreshProcess ==
    /\ messages = <<Msg("assistant", GREETING), Msg("assistant", ASK_NAME)>>
    /\ profile = <<>>
    /\ consent = FALSE
    /\ questions = <<>>
    /\ ended = FALSE
    /\ question_count = DefaultQuestions
    /\ saved = <<>>
    /\ TECH_QUESTIONS = TECH_QUESTIONS_0
    /\ GENERIC_QUESTIONS = GENERIC_QUESTIONS_0
    /\ last = [kind |-> "init", text |-> <<>>, route |-> "none", llm |-> "none"]
    /\ noise = 0
    /\ toggled = FALSE
    /\ call = NoCall

Init == FreshProcess /\ pure = NoPure

Next ==
    \/ \E user_input \in Inputs : UserTurn(user_input)
    \/ ToggleConsent
    \/ \E n \in MinQuestions..MaxQuestions : SetQuestionCount(n)

Spec == Init /\ [][Next]_vars

NextQ ==
    \/ \E techs \in TechLists, total \in Totals : Call(techs, total)
    \/ CallAgain
    \/ Forget

SpecQ == Init /\ [][NextQ]_vars

-----------------------------------------------------------------------------
(* Direct calls of parse_tech_stack and of maybe_finalize_profile (SpecF) *)

MaxRawLen == 5         \* longest text passed to parse_tech_stack

RawAlphabet == {"P", "y", ",", "/", "|", " "}

RECURSIVE TextsUpTo(_)
TextsUpTo(n) ==
    IF n = 0 THEN {<<>>}
    ELSE LET shorter == TextsUpTo(n - 1)
         IN  shorter \cup {Append(t, ch) : t \in {u \in shorter : Len(u) = n - 1},
                                           ch \in RawAlphabet}

RawTexts == TextsUpTo(MaxRawLen)

I_stored_stack == T_python \o <<",", " ">> \o T_javascript

\* What a raw dictionary can hold under each key: nothing, a value its
\* validator takes, a value it refuses, a value that is not even of its kind.
FieldValues ==
       ("full_name" :> [good |-> I_name, bad |-> I_blank, junk |-> I_empty])
    @@ ("email" :> [good |-> I_email, bad |-> I_a, junk |-> I_empty])
    @@ ("phone" :> [good |-> I_phone, bad |-> I_70, junk |-> I_a])
    @@ ("years_experience" :> [good |-> I_years, bad |-> I_70, junk |-> I_a])
    @@ ("desired_positions" :> [good |-> I_role, bad |-> I_blank, junk |-> I_empty])
    @@ ("location" :> [good |-> I_role, bad |-> I_blank, junk |-> I_empty])
    @@ ("tech_stack" :> [good |-> I_stored_stack, bad |-> I_blank, junk |-> I_empty])

RawOf(choice) ==
    [f \in {g \in FieldNames : choice[g] # "absent"} |->
        CASE choice[f] = "good" -> FieldValues[f].good
          [] choice[f] = "bad" -> FieldValues[f].bad
          [] OTHER -> FieldValues[f].junk]

RawDicts ==
    {RawOf(choice) : choice \in
        {c \in [FieldNames -> {"absent", "good", "bad", "junk"}] :
            \A f \in FieldNames : c[f] = "junk" => f = "years_experience"}}

PureCall(fn, text, raw) ==
    [fn |-> fn, text |-> text, raw |-> raw, done |-> FALSE,
     tokens |-> <<>>, ok |-> FALSE]

PureCalls ==
    {PureCall("parse_tech_stack", t, <<>>) : t \in RawTexts}
    \cup {PureCall("maybe_finalize_profile", <<>>, d) : d \in RawDicts}

\* parse_tech_stack(raw) called on a text.
ParseTechStack ==
    /\ pure.fn = "parse_tech_stack" /\ ~pure.done
    /\ pure' = [pure EXCEPT !.done = TRUE, !.tokens = parse_tech_stack(pure.text)]
    /\ UNCHANGED <<session_vars_but_pure, TECH_QUESTIONS, GENERIC_QUESTIONS, call>>

\* maybe_finalize_profile() called with st.session_state.profile = raw.
Finalize ==
    /\ pure.fn = "maybe_finalize_profile" /\ ~pure.done
    /\ pure' = [pure EXCEPT !.done = TRUE, !.ok = maybe_finalize_profile(pure.raw).ok]
    /\ UNCHANGED <<session_vars_but_pure, TECH_QUESTIONS, GENERIC_QUESTIONS, call>>

InitF == FreshProcess /\ pure \in PureCalls

NextF ==
    \/ ParseTechStack
    \/ Finalize

SpecF == InitF /\ [][NextF]_vars

-----------------------------------------------------------------------------
(* Properties of generate_question_set, checked under SpecQ *)

NoDuplicates(s) == \A i, j \in 1..Len(s) : i # j => s[i] # s[j]

\* Every question the requested technologies and the generic pool hold.
PoolOf(techs) ==
    UNION {Range(_questions_for_tech(techs[i], TECH_QUESTIONS)) : i \in 1..Len(techs)}
    \cup Range(GENERIC_QUESTIONS)

\* C3: two calls of generate_question_set with the same technology list and
\* the same total return the same ordered list.
C3_SameArgsSameResult ==
    call.repeat => call.result = call.before

\* C4: for a de-duplicated technology list and a total in 3..8 the result
\* has exactly total items, or fewer only when the banks of the requested
\* technologies and the generic pool are all in the result.
C4_ExactlyTotalUnlessExhausted ==
    (call.made /\ NoDuplicates(call.techs)
        /\ call.total \in MinQuestions..MaxQuestions)
    => \/ Len(call.result) = call.total
       \/ /\ Len(call.result) < call.total
          /\ PoolOf(call.techs) \subseteq Questions(call.result)

\* C5: for every technology list and total >= 1 the result has at most total
\* items, no question twice, only tags of requested technologies or
\* "general"; technology items carry a question of that technology's bank
\* and come in the input order of the technologies, before all general items.
C5_ResultWellFormed ==
    call.made =>
        LET r == call.result
            IsTech(i) == r[i].tech # T_general
        IN  /\ Len(r) <= call.total
            /\ \A i, j \in 1..Len(r) : i # j => r[i].question # r[j].question
            /\ \A i \in 1..Len(r) : r[i].tech \in Range(call.techs) \cup {T_general}
            /\ \A i \in 1..Len(r) :
                  IsTech(i) =>
                      r[i].question \in Range(_questions_for_tech(r[i].tech, TECH_QUESTIONS))
            /\ \A i, j \in 1..Len(r) :
                  (i < j /\ IsTech(j)) =>
                      /\ IsTech(i)
                      /\ \E a, b \in 1..Len(call.techs) :
                            a <= b /\ call.techs[a] = r[i].tech /\ call.techs[b] = r[j].tech

\* C5 witness: a call that named the same technology twice, whose second
\* shuffle brought back a question already taken, and that was filled up
\* with general items after items of two technologies.
C5_Witness ==
    /\ call.made
    /\ ~NoDuplicates(call.techs)
    /\ Len(call.result) = call.total
    /\ \E i, j, k \in 1..Len(call.result) :
          /\ i < j /\ j < k
          /\ call.result[i].tech = T_python
          /\ call.result[j].tech = T_python
          /\ call.result[k].tech = T_general

-----------------------------------------------------------------------------
(* Properties of the chat wizard, checked under Spec *)

YesLike(text) == Lower(Strip(text)) \in {<<"y","e","s">>, <<"y">>}

AllStored(prof) == FieldNames \subseteq DOMAIN prof

UserMessages == {i \in 1..Len(messages) : messages[i].role = "user"}

\* The step is a chat turn that main() routed past the end-keyword test.
ProcessedTurn ==
    /\ ~ended
    /\ last'.kind = "turn"
    /\ last'.text # <<>>
    /\ ~is_end_keyword(last'.text, END_KEYWORDS)

\* C1: fresh session, seven valid fields, "yes" to the consent prompt, one
\* answer per question, then "exit": exactly one transcript is written, and
\* it holds the seven profile fields and only answered QuestionItems.
C1_EndToEndPersistsOnce ==
    ( /\ ~toggled /\ noise = 0
      /\ ended
      /\ last.route = "end" /\ last.text = I_exit
      /\ AllStored(profile)
      /\ \E i \in 1..(Len(messages) - 1) :
            /\ messages[i] = Msg("assistant", ASK_CONSENT)
            /\ messages[i + 1] = Msg("user", I_yes)
      /\ questions # <<>> /\ Unanswered(questions) = {}
      /\ Cardinality(UserMessages) = Len(FieldOrder) + 1 + Len(questions) + 1 )
    => /\ Len(saved) = 1
       /\ FieldNames \subseteq DOMAIN saved[1].profile
       /\ saved[1].questions # <<>>
       /\ Unanswered(saved[1].questions) = {}

\* C2: on the reply to the consent prompt the consent flag becomes true iff
\* the trimmed, lowercased text is "yes" or "y", and the machine moves on
\* without asking again.
C2_ConsentFromReply ==
    [][ (Stage = "consent" /\ ~consent /\ ProcessedTurn)
        => /\ consent' = YesLike(last'.text)
           /\ Stage' # "consent"
           /\ messages'[Len(messages')] # Msg("assistant", ASK_CONSENT) ]_vars

\* C6: a turn carrying an end keyword writes the transcript iff consent is
\* on and the raw profile finalizes; never before all seven fields are
\* stored, never with consent off.
C6_PersistenceGate ==
    [][ ( /\ ~ended
          /\ last'.kind = "turn"
          /\ is_end_keyword(last'.text, END_KEYWORDS) )
        => /\ \/ saved' = saved
              \/ /\ Len(saved') = Len(saved) + 1
                 /\ SubSeq(saved', 1, Len(saved)) = saved
           /\ (saved' # saved) <=> (consent /\ maybe_finalize_profile(profile).ok)
           /\ ~AllStored(profile) => saved' = saved
           /\ ~consent => saved' = saved
           /\ saved' # saved =>
                 saved'[Len(saved')] =
                     [profile |-> maybe_finalize_profile(profile).data,
                      messages |-> messages', questions |-> questions] ]_vars

\* C6 witness: an ended conversation whose transcript was written.
C6_Witness ==
    /\ ended /\ last.route = "end"
    /\ consent /\ AllStored(profile)
    /\ Len(saved) = 1

\* C7: once ended, always ended; a later turn changes neither messages,
\* profile, consent, questions nor the written transcripts, and a
\* conversation writes at most one transcript.
C7_EndedIsTerminal ==
    [][ /\ ended =>
            /\ ended'
            /\ messages' = messages
            /\ profile' = profile
            /\ questions' = questions
            /\ saved' = saved
            /\ last'.kind = "turn" => consent' = consent
        /\ Len(saved') <= 1 ]_vars

\* C7 witness: the end keyword sent again after a conversation that was
\* written has ended.
C7_Witness ==
    /\ ended /\ Len(saved) = 1
    /\ last.kind = "turn" /\ last.route = "ignored" /\ last.text = I_exit

\* C8: in every state that is not ended, a turn whose trimmed, lowercased
\* text is an end keyword ends the conversation with the closing message and
\* is neither stored, nor recorded as an answer, nor the trigger of question
\* generation, nor sent to the LLM.
C8_EndKeywordFirst ==
    [][ ( /\ ~ended
          /\ last'.kind = "turn"
          /\ Lower(Strip(last'.text)) \in END_KEYWORDS )
        => /\ ended'
           /\ last'.route = "end"
           /\ messages' = messages \o <<Msg("user", last'.text),
                                        Msg("assistant", CLOSING)>>
           /\ profile' = profile
           /\ questions' = questions
           /\ TECH_QUESTIONS' = TECH_QUESTIONS
           /\ GENERIC_QUESTIONS' = GENERIC_QUESTIONS ]_vars

\* C8 witness: " End" typed while questions are waiting for an answer.
C8_Witness ==
    /\ ended /\ last.route = "end" /\ last.text = I_End
    /\ questions # <<>> /\ Unanswered(questions) # {}

\* The check each field-collection state applies to the stripped text.
PassesFieldCheck(field, user_input) ==
    LET text == Strip(user_input)
        v == ParseFloat(text)
    IN  CASE field = "full_name" -> Len(text) >= 3
          [] field = "email" -> validate_email(text)
          [] field = "phone" -> is_valid_number(text)
          [] field = "years_experience" ->
                v.ok /\ ~FloatBelow(v, 0) /\ ~FloatAbove(v, 60)
          [] field \in {"desired_positions", "location"} -> Len(text) >= 2
          [] field = "tech_stack" -> parse_tech_stack(text) # <<>>

TextStates == {"full_name", "desired_positions", "location"}

C11_GeneratedOnce ==
    [][ /\ (Stage = "consent" /\ ProcessedTurn) => questions' # <<>>
        /\ (questions = <<>> /\ questions' # <<>>) =>
              /\ last'.kind = "turn" /\ last'.route = "generate"
              /\ Len(messages') >= Len(messages) + 1 + Len(questions')
              /\ \A i \in 1..Len(questions') :
                    messages'[Len(messages') - Len(questions') + i] =
                        Msg("assistant", <<"Q", IntStr(i), ". ", questions'[i].question>>)
        /\ last'.route = "generate" => questions = <<>>
        /\ questions # <<>> =>
              /\ Len(questions') = Len(questions)
              /\ \A i \in 1..Len(questions) :
                    /\ questions'[i].tech = questions[i].tech
                    /\ questions'[i].question = questions[i].question ]_vars

\* C11 witness: five questions were generated, the sidebar count was moved
\* afterwards, and a later turn recorded an answer.
C11_Witness ==
    /\ Len(questions) = DefaultQuestions
    /\ question_count # DefaultQuestions
    /\ last.kind = "turn" /\ last.route = "answer"

Answered(qs) == {i \in 1..Len(qs) : "answer" \in DOMAIN qs[i]}

SentimentLabels == {"positive", "neutral", "negative"}

\* C12: on every non-end turn taken while some question has no answer,
\* exactly one item changes, the lowest-index one without an answer: it
\* receives the turn's text and a sentiment label; no other item changes and
\* no answer is overwritten.  In every state the answered items are a prefix
\* of the list, an item has a label iff it has an answer, and the count the
\* assistant reports is the number of items still without an answer.
C12_FifoAnswers ==
    [][ /\ (questions # <<>> /\ Unanswered(questions) # {} /\ ProcessedTurn) =>
              LET i == CHOOSE k \in Unanswered(questions) :
                           \A j \in Unanswered(questions) : k <= j
                  remaining == Cardinality(Unanswered(questions'))
              IN  /\ Len(questions') = Len(questions)
                  /\ \A j \in 1..Len(questions) : j # i => questions'[j] = questions[j]
                  /\ DOMAIN questions'[i] = DOMAIN questions[i] \cup {"answer", "sentiment"}
                  /\ questions'[i].answer = last'.text
                  /\ questions'[i].sentiment \in SentimentLabels
                  /\ questions'[i].tech = questions[i].tech
                  /\ questions'[i].question = questions[i].question
                  /\ Unanswered(questions') = Unanswered(questions) \ {i}
                  /\ messages'[Len(messages')] = Msg("assistant",
                        IF remaining # 0
                        THEN <<"Noted. ", IntStr(remaining), " question(s) remaining.">>
                        ELSE <<"Noted. Type 'exit' to finish or ask a follow-up.">>)
        /\ \A j \in Answered(questions) :
              /\ j \in Answered(questions')
              /\ questions'[j].answer = questions[j].answer
              /\ questions'[j].sentiment = questions[j].sentiment
        /\ Answered(questions') = 1..Cardinality(Answered(questions'))
        /\ \A j \in 1..Len(questions') :
              ("sentiment" \in DOMAIN questions'[j]) <=> ("answer" \in DOMAIN questions'[j]) ]_vars

\* C12 witness: the second answer, an off-script "no" labelled negative, was
\* recorded on the second question while later questions wait.
C12_Witness ==
    /\ last.kind = "turn" /\ last.route = "answer" /\ last.text = I_no
    /\ Answered(questions) = {1, 2}
    /\ Unanswered(questions) # {}
    /\ questions[1].answer = I_yes /\ questions[1].sentiment = "positive"
    /\ questions[2].answer = I_no /\ questions[2].sentiment = "negative"

\* C13: on an open-chat turn, when the key is set and the network-backed
\* responder fails, or when no key is set, the turn ends with exactly one
\* new assistant message, the rule-based reply to the same history, and
\* nothing is raised to the caller of the turn.
C13_LLMFailureAbsorbed ==
    [][ (Stage = "chat" /\ ProcessedTurn) =>
           LET msgs == Append(messages, Msg("user", last'.text))
           IN  /\ last'.route = "chat"
               /\ last'.llm \in {"no_key", "client_error", "api_fail"} =>
                     messages' = Append(msgs, Msg("assistant",
                                                  RuleBasedLLM_chat(LastTen(msgs)))) ]_vars

-----------------------------------------------------------------------------
(* Properties of parse_tech_stack and from_raw, checked under SpecF *)

Separators == {",", "/", "|"}

AbbreviationKeys ==
    {<<"j","s">>, <<"p","y">>, <<"t","s">>, <<"p","g","s","q","l">>,
     <<"p","o","s","t","g","r","e">>, <<"m","o","n","g","o">>, <<"t","f">>,
     <<"s","k","l","e","a","r","n">>}

\* The positions that bound the pieces of s: before it, after it, and every
\* separator in it; the k-th of them in increasing order.
Cuts(s) == {0, Len(s) + 1} \cup {i \in 1..Len(s) : s[i] \in Separators}

CutAt(s, k) ==
    CHOOSE c \in Cuts(s) : Cardinality({d \in Cuts(s) : d < c}) = k - 1

Piece(s, k) == SubSeq(s, CutAt(s, k) + 1, CutAt(s, k + 1) - 1)

Trimmed(piece) ==
    LET solid == {i \in 1..Len(piece) : piece[i] \notin Whitespace}
    IN  IF solid = {} THEN <<>>
        ELSE SubSeq(piece, CHOOSE a \in solid : \A b \in solid : a <= b,
                           CHOOSE a \in solid : \A b \in solid : a >= b)

Canonical(token) == IF token \in AbbreviationKeys THEN aliases[token] ELSE token

\* The canonical token of every piece of s, blank pieces included.
CanonicalPieces(s) ==
    [k \in 1..(Cardinality(Cuts(s)) - 1) |-> Canonical(Lower(Trimmed(Piece(s, k))))]

\* The pieces that survive: not blank, and not seen at a lower index.
Kept(s) ==
    LET c == CanonicalPieces(s)
    IN  {k \in 1..Len(c) : c[k] # <<>> /\ \A j \in 1..(k - 1) : c[j] # c[k]}

\* C14: parse_tech_stack returns the pieces between commas, slashes and
\* pipes, trimmed and lowercased, blank pieces dropped, abbreviations
\* replaced by their canonical names, first occurrences only and in order of
\* first appearance; the result has no duplicate, no empty token and no
\* abbreviation key, and is empty when no piece is non-blank.
C14_ParseTechStack ==
    (pure.fn = "parse_tech_stack" /\ pure.done) =>
        LET s == pure.text
            out == pure.tokens
            c == CanonicalPieces(s)
        IN  /\ DOMAIN aliases = AbbreviationKeys
            /\ Len(out) = Cardinality(Kept(s))
            /\ \A k \in Kept(s) :
                  out[1 + Cardinality({j \in Kept(s) : j < k})] = c[k]
            /\ NoDuplicates(out)
            /\ \A i \in 1..Len(out) : out[i] # <<>> /\ out[i] \notin AbbreviationKeys
            /\ (\A k \in 1..Len(c) : c[k] = <<>>) <=> out = <<>>

\* C14 witness: "Py|py" - a pipe, mixed case, an abbreviation and a repeat -
\* parsed to the single token python.
C14_Witness ==
    /\ pure.fn = "parse_tech_stack" /\ pure.done
    /\ pure.text = <<"P", "y", "|", "P", "y">>
    /\ pure.tokens = <<T_python>>

-----------------------------------------------------------------------------
(* Further properties of the chat wizard, checked under Spec *)

\* The text parses as a number v with 0 <= v <= 60.
NumberInRange(text) ==
    LET v == ParseFloat(text)
    IN  /\ v.ok /\ v.kind = "num"
        /\ \/ v.sign > 0 /\ (v.whole < 60 \/ (v.whole = 60 /\ ~FracNonZero(v)))
           \/ v.sign < 0 /\ v.whole = 0 /\ ~FracNonZero(v)

\* C15: in the years_experience state an input is stored, and the machine
\* moves to desired_positions, iff it parses as a number v with
\* 0 <= v <= 60; any other input is refused with a hint and stores nothing.
C15_YearsAcceptedIffInRange ==
    [][ (Stage = "years_experience" /\ ProcessedTurn) =>
           IF NumberInRange(last'.text)
           THEN /\ profile' = Store(profile, "years_experience", Strip(last'.text))
                /\ Stage' = "desired_positions"
           ELSE /\ profile' = profile
                /\ messages'[Len(messages')].content
                      \in {YEARS_RANGE_HINT, YEARS_NUMBER_HINT} ]_vars

StoredPrefix(prof) ==
    \E k \in 0..Len(FieldOrder) : DOMAIN prof = {FieldOrder[i] : i \in 1..k}

\* C17: the stored profile fields are always a prefix of full_name, email,
\* phone, years_experience, desired_positions, location, tech_stack; a step
\* stores at most one field and never removes or overwrites a stored one.
C17_ForwardOrder ==
    [][ /\ StoredPrefix(profile')
        /\ DOMAIN profile \subseteq DOMAIN profile'
        /\ \A f \in DOMAIN profile : profile'[f] = profile[f]
        /\ Cardinality(DOMAIN profile' \ DOMAIN profile) <= 1 ]_vars

\* C17 witness: four fields are stored and the text "a" has just been
\* refused as desired position.
C17_Witness ==
    /\ DOMAIN profile = {"full_name", "email", "phone", "years_experience"}
    /\ last.kind = "turn" /\ last.route = "collect" /\ last.text = I_a
    /\ messages[Len(messages)] = Msg("assistant", POSITIONS_HINT)

\* All seven fields are stored, each passes the check of its collection
\* step, and the raw profile finalizes.
ValidRaw(prof) ==
    /\ AllStored(prof)
    /\ \A f \in FieldNames : PassesFieldCheck(f, prof[f])
    /\ maybe_finalize_profile(prof).ok

\* C18: questions exist only for a complete, valid profile; while a field
\* is missing or invalid no turn generates questions, records an answer or
\* goes on to open chat.
C18_GatedByProfile ==
    [][ /\ questions' # <<>> => ValidRaw(profile')
        /\ (~ValidRaw(profile) /\ last'.kind = "turn") =>
              /\ last'.route \notin {"generate", "answer", "chat"}
              /\ questions' = <<>> ]_vars

\* C18 witness: questions were generated on this turn, three of them as the
\* sidebar asked, for a complete valid profile.
C18_Witness ==
    /\ last.kind = "turn" /\ last.route = "generate"
    /\ ValidRaw(profile)
    /\ question_count = MinQuestions
    /\ Len(questions) = MinQuestions

\* C20: whenever all seven raw fields are stored the raw profile finalizes;
\* so the turn after tech_stack is accepted is not handed to
\* collect_candidate_info, and the stored comma-joined tech_stack parses to
\* the list parsed from what the user typed.
C20_LayersAgree ==
    [][ /\ AllStored(profile') =>
              /\ maybe_finalize_profile(profile').ok
              /\ is_complete_minimal(maybe_finalize_profile(profile'))
        /\ (Stage = "consent" /\ ProcessedTurn) =>
              /\ maybe_finalize_profile(profile).ok
              /\ last'.route = "generate"
        /\ (Stage = "tech_stack" /\ ProcessedTurn /\ AllStored(profile')) =>
              /\ parse_tech_stack(last'.text) # <<>>
              /\ parse_tech_stack(profile'["tech_stack"]) = parse_tech_stack(last'.text) ]_vars

\* C20 witness: "Py/JS| py" was stored as "python, javascript", the profile
\* finalized, and the next turn generated the questions.
C20_Witness ==
    /\ AllStored(profile)
    /\ profile["tech_stack"] = I_stored_stack
    /\ maybe_finalize_profile(profile).ok
    /\ last.kind = "turn" /\ last.route = "generate"
    /\ \E i \in 1..Len(messages) :
          messages[i] = Msg("user", I_stack) /\ i + 2 < Len(messages)

-----------------------------------------------------------------------------
(* Property of maybe_finalize_profile, checked under SpecF *)

\* The field validators of CandidateProfile, one raw value at a time.
ValidatorAccepts(field, value) ==
    CASE field = "email" -> validate_email(value)
      [] field = "phone" -> is_valid_number(value)
      [] field = "years_experience" ->
            LET v == ParseFloat(Strip(value))
            IN  v.ok /\ ~FloatBelow(v, 0) /\ ~FloatAbove(v, 60)
      [] OTHER -> Strip(value) # <<>>

\* C19: finalization fails for every raw dictionary that lacks one of the
\* seven fields or holds a value its validator refuses, and succeeds when
\* all seven are present and valid.
C19_AllSevenRequired ==
    (pure.fn = "maybe_finalize_profile" /\ pure.done) =>
        (pure.ok <=> /\ AllStored(pure.raw)
                     /\ \A f \in FieldNames : ValidatorAccepts(f, pure.raw[f]))


=============================================================================
